---- MODULE Spec2Model ----
(***************************************************************************)
(* A model of the chainable CSS value builders of                          *)
(* packages/utils (vanilla-extract fork): the calc() expression builder    *)
(* of src/packages/utils/src/functions/timing.ts, the transform builder,   *)
(* the transition and animation builders with their module-level default   *)
(* records, and the unit coercion of src/packages/utils/src/types/util.ts. *)
(*                                                                         *)
(* Spec is the client that holds one calc() expression.  BuilderSpec is    *)
(* the client of one builder family that keeps every builder it obtains.   *)
(* SpacingSpec is the client of spacing() and its module-level unit.       *)
(*                                                                         *)
(* A JavaScript string is modelled as a sequence of tokens (a "text"):     *)
(* the string is the concatenation of its tokens, see Str.  The tokens     *)
(* are exactly the pieces the code concatenates: a literal's text, a       *)
(* join separator (" + ", ", "), a parenthesis, a function name.           *)
(*                                                                         *)
(* An Operand (string | number | Calc) is a record tagged by kind:         *)
(*   [kind |-> "number", n |-> 1]                                          *)
(*   [kind |-> "string", s |-> "var(--some-css-var)"]                      *)
(*   [kind |-> "Calc", obj |-> <the Calc object>, val |-> <ghost value>]   *)
(* The ghost value of a Calc reference is the integer the expression       *)
(* denotes as it was constructed, kept only for expressions built from     *)
(* integer literals with add, subtract and multiply.                       *)
(***************************************************************************)
EXTENDS Integers, Sequences, FiniteSets, TLC

VARIABLES held, last, ncalls, client, builders, cells, call, steps, draws,
          unitPx

vars == <<held, last, ncalls, client, builders, cells, call, steps, draws,
          unitPx>>

(* --------------------------- bounds ------------------------------------ *)

\* calls a client makes in one run
MaxCalls == 2
\* operands supplied to one variadic call
MaxArgs == 2
\* calls a client of the store makes in one run
MaxSteps == 3

(* --------------------------- inputs ------------------------------------ *)

Numbers == {1, 2}

Strings == {"var(--some-css-var)"}

Num(n) == [kind |-> "number", n |-> n]

StrOp(s) == [kind |-> "string", s |-> s]

Literals == {Num(n) : n \in Numbers} \cup {StrOp(s) : s \in Strings}

(* --------------------------- strings ----------------------------------- *)

Digit(d) ==
  CASE d = 0 -> "0" [] d = 1 -> "1" [] d = 2 -> "2" [] d = 3 -> "3"
    [] d = 4 -> "4" [] d = 5 -> "5" [] d = 6 -> "6" [] d = 7 -> "7"
    [] d = 8 -> "8" [] d = 9 -> "9"

RECURSIVE Digits(_)
Digits(n) == IF n < 10 THEN Digit(n) ELSE Digits(n \div 10) \o Digit(n % 10)

\* Number.prototype.toString for an integer
NumberToString(n) == IF n < 0 THEN "-" \o Digits(-n) ELSE Digits(n)

\* the JavaScript string a text stands for
RECURSIVE Str(_)
Str(t) == IF t = <<>> THEN "" ELSE Head(t) \o Str(Tail(t))

\* Array.prototype.join on an array of texts
RECURSIVE Join(_, _)
Join(texts, sep) ==
  IF texts = <<>> THEN <<>>
  ELSE IF Len(texts) = 1 THEN texts[1]
  ELSE texts[1] \o <<sep>> \o Join(Tail(texts), sep)

(* --------------------------- class Calc -------------------------------- *)

Undefined == "undefined"

Operators == {"+", "-", "*", "/"}

NonCalcFunctions ==
  {"min", "max", "clamp", "acos", "asin", "atan", "atan2", "cos", "sin",
   "tan", "sqrt", "log", "exp", "abs", "pow", "round", "ceil", "floor"}

IsCalc(e) == e.kind = "Calc"

isTerm(op) == op.operator = "+" \/ op.operator = "-"

isFactor(op) == op.operator = "*" \/ op.operator = "/"

isFn(op) == op.fn # "calc"

\* build that joins with ", " whatever the operator
build_CommaOnly(c) == Join(c.expressions, ", ")

build(c) ==
  IF c.operator = Undefined
  THEN Join(c.expressions, ", ")
  ELSE Join(c.expressions, " " \o c.operator \o " ")

toString(c) == <<c.fn, "(">> \o build(c) \o <<")">>

\* e.toString() of an operand of any kind
OperandToString(e) ==
  CASE e.kind = "number" -> <<NumberToString(e.n)>>
    [] e.kind = "string" -> <<e.s>>
    [] e.kind = "Calc" -> toString(e.obj)

\* MapExpr without the first branch: a term is never parenthesized
MapExpr_NoParens(thisIsFactor, thisIsFn, e) ==
  IF thisIsFn \/ (IsCalc(e) /\ isFn(e.obj))
  THEN OperandToString(e)
  ELSE IF IsCalc(e)
  THEN build(e.obj)
  ELSE OperandToString(e)

\* MapExpr whose second branch forgets the test of the operand
MapExpr_FnOperandBuilt(thisIsFactor, thisIsFn, e) ==
  IF thisIsFactor /\ IsCalc(e) /\ isTerm(e.obj)
  THEN <<"(">> \o build(e.obj) \o <<")">>
  ELSE IF thisIsFn
  THEN OperandToString(e)
  ELSE IF IsCalc(e)
  THEN build(e.obj)
  ELSE OperandToString(e)

\* MapExpr whose second branch forgets the test of the node itself
MapExpr_FnArgsBuilt(thisIsFactor, thisIsFn, e) ==
  IF thisIsFactor /\ IsCalc(e) /\ isTerm(e.obj)
  THEN <<"(">> \o build(e.obj) \o <<")">>
  ELSE IF IsCalc(e) /\ isFn(e.obj)
  THEN OperandToString(e)
  ELSE IF IsCalc(e)
  THEN build(e.obj)
  ELSE OperandToString(e)

\* MapExpr whose third branch renders the operand with its wrapper
MapExpr_Nested(thisIsFactor, thisIsFn, e) ==
  IF thisIsFactor /\ IsCalc(e) /\ isTerm(e.obj)
  THEN <<"(">> \o build(e.obj) \o <<")">>
  ELSE OperandToString(e)

\* the callback of exprs.map in the constructor
MapExpr(thisIsFactor, thisIsFn, e) ==
  IF thisIsFactor /\ IsCalc(e) /\ isTerm(e.obj)
  THEN <<"(">> \o build(e.obj) \o <<")">>
  ELSE IF thisIsFn \/ (IsCalc(e) /\ isFn(e.obj))
  THEN OperandToString(e)
  ELSE IF IsCalc(e)
  THEN build(e.obj)
  ELSE OperandToString(e)

\* new Calc(exprs, operator, fn)
NewCalc(exprs, operator, fn) ==
  LET this == [operator |-> operator, fn |-> fn]
      thisIsFactor == isFactor(this)
      thisIsFn == isFn(this)
  IN [expressions |-> [i \in 1..Len(exprs) |->
                         MapExpr(thisIsFactor, thisIsFn, exprs[i])],
      operator |-> operator,
      fn |-> fn]

(* --------------------------- chain methods ----------------------------- *)

add(this, operands) == NewCalc(<<this>> \o operands, "+", "calc")

subtract(this, operands) == NewCalc(<<this>> \o operands, "-", "calc")

multiply(this, operands) == NewCalc(<<this>> \o operands, "*", "calc")

\* divide that makes a node of its operands only when it is given some
divide_OnlyWithOperands(this, operands) ==
  IF operands = <<>> THEN this.obj
  ELSE NewCalc(<<this>> \o operands, "/", "calc")

divide(this, operands) == NewCalc(<<this>> \o operands, "/", "calc")

\* negate as its doc comment has it, the receiver first
negate_ReceiverFirst(this) == NewCalc(<<this, Num(-1)>>, "*", "calc")

negate(this) == NewCalc(<<Num(-1), this>>, "*", "calc")

\* min that keeps an operator next to the function name
Calc_min_WithOperator(this, operands) ==
  NewCalc(<<this>> \o operands, "+", "min")

Calc_min(this, operands) == NewCalc(<<this>> \o operands, Undefined, "min")

Calc_max(this, operands) == NewCalc(<<this>> \o operands, Undefined, "max")

Calc_clamp(this, lo, hi) == NewCalc(<<this, lo, hi>>, Undefined, "clamp")

Calc_atan2(this, y) == NewCalc(<<this, y>>, Undefined, "atan2")

Calc_pow(this, exponent) == NewCalc(<<this, exponent>>, Undefined, "pow")

\* base = <<>> stands for an omitted (undefined) base, <<b>> for base b
Calc_log(this, base) ==
  IF base # <<>>
  THEN NewCalc(<<this, base[1]>>, Undefined, "log")
  ELSE NewCalc(<<this>>, Undefined, "log")

\* acos, asin, atan, cos, sin, tan, sqrt, exp, abs, round, ceil, floor:
\* twelve methods with the body  new Calc([this], undefined, fn)
UnaryFunctions ==
  {"acos", "asin", "atan", "cos", "sin", "tan", "sqrt", "exp", "abs",
   "round", "ceil", "floor"}

Calc_unary(fn, this) == NewCalc(<<this>>, Undefined, fn)

(* --------------------------- free functions ---------------------------- *)

calc(x) == NewCalc(<<x>>, Undefined, "calc")

e(factor) ==
  IF factor = 1
  THEN NewCalc(<<StrOp("e")>>, Undefined, "calc")
  ELSE NewCalc(<<Num(factor), StrOp("e")>>, "*", "calc")

\* pi that multiplies whatever the factor
pi_AlwaysProduct(factor) ==
  NewCalc(<<Num(factor), StrOp("pi")>>, "*", "calc")

pi(factor) ==
  IF factor = 1
  THEN NewCalc(<<StrOp("pi")>>, Undefined, "calc")
  ELSE NewCalc(<<Num(factor), StrOp("pi")>>, "*", "calc")

inf(isNegative) ==
  IF isNegative
  THEN NewCalc(<<StrOp("-infinity")>>, Undefined, "calc")
  ELSE NewCalc(<<StrOp("infinity")>>, Undefined, "calc")

nan == NewCalc(<<StrOp("NaN")>>, Undefined, "calc")

min(operands) == NewCalc(operands, Undefined, "min")

max(operands) == NewCalc(operands, Undefined, "max")

clamp(lo, value, hi) == NewCalc(<<lo, value, hi>>, Undefined, "clamp")

atan2(x, y) == NewCalc(<<x, y>>, Undefined, "atan2")

pow(base, exponent) == NewCalc(<<base, exponent>>, Undefined, "pow")

log(value, base) ==
  IF base # <<>>
  THEN NewCalc(<<value, base[1]>>, Undefined, "log")
  ELSE NewCalc(<<value>>, Undefined, "log")

unary(fn, value) == NewCalc(<<value>>, Undefined, fn)

(* --------------------------- ghost value ------------------------------- *)

NoVal == [ok |-> FALSE, n |-> 0]

IntVal(n) == [ok |-> TRUE, n |-> n]

ValOf(x) ==
  CASE x.kind = "number" -> IntVal(x.n)
    [] x.kind = "string" -> NoVal
    [] x.kind = "Calc" -> x.val

Apply(op, a, b) ==
  CASE op = "+" -> a + b
    [] op = "-" -> a - b
    [] op = "*" -> a * b

\* ((acc op y1) op ... op yk), defined when every part is
RECURSIVE Fold(_, _, _)
Fold(op, acc, ys) ==
  IF ys = <<>> THEN acc
  ELSE IF ~acc.ok \/ ~ValOf(Head(ys)).ok THEN NoVal
  ELSE Fold(op, IntVal(Apply(op, acc.n, ValOf(Head(ys)).n)), Tail(ys))

(* --------------------------- numbers ----------------------------------- *)

(***************************************************************************)
(* A JavaScript number that is not NaN is a record [neg, int, frac]: its   *)
(* sign, its integer part and the digits of its fraction without trailing  *)
(* zeros.  A string that may be parsed is listed with its characters,      *)
(* see Chars.  The strings a client passes are written with digits, a      *)
(* sign, a point, blanks and letters; exponents, hexadecimal literals and  *)
(* "Infinity" are not among them.                                          *)
(***************************************************************************)

NaN == [nan |-> TRUE]

Dec(neg, int, frac) == [nan |-> FALSE, neg |-> neg, int |-> int, frac |-> frac]

\* the characters of the strings a client passes
Chars(s) ==
  CASE s = "" -> <<>>
    [] s = "0" -> <<"0">>
    [] s = "-5" -> <<"-", "5">>
    [] s = "5.0" -> <<"5", ".", "0">>
    [] s = "0.50" -> <<"0", ".", "5", "0">>
    [] s = " 300 " -> <<" ", "3", "0", "0", " ">>
    [] s = "1s" -> <<"1", "s">>
    [] s = "2s" -> <<"2", "s">>
    [] s = "5ms" -> <<"5", "m", "s">>
    [] s = "ease-in" -> <<"e", "a", "s", "e", "-", "i", "n">>
    [] s = "var(--x)" -> <<"v", "a", "r", "(", "-", "-", "x", ")">>
    [] s = "var(--some-css-var)" ->
         <<"v", "a", "r", "(", "-", "-", "s", "o", "m", "e", "-", "c", "s",
           "s", "-", "v", "a", "r", ")">>

DigitValue(ch) == CHOOSE d \in 0..9 : Digit(d) = ch

\* StrWhiteSpace is skipped on both sides
RECURSIVE TrimStart(_)
TrimStart(cs) ==
  IF cs # <<>> /\ Head(cs) = " " THEN TrimStart(Tail(cs)) ELSE cs

RECURSIVE TrimEnd(_)
TrimEnd(cs) ==
  IF cs # <<>> /\ cs[Len(cs)] = " "
  THEN TrimEnd(SubSeq(cs, 1, Len(cs) - 1))
  ELSE cs

\* the mathematical value of a run of decimal digits
RECURSIVE DigitsValue(_)
DigitsValue(cs) ==
  IF cs = <<>> THEN 0
  ELSE DigitsValue(SubSeq(cs, 1, Len(cs) - 1)) * 10 + DigitValue(cs[Len(cs)])

\* the digits of a fraction up to its last digit that is not zero
RECURSIVE Significant(_)
Significant(cs) ==
  IF cs # <<>> /\ cs[Len(cs)] = "0"
  THEN Significant(SubSeq(cs, 1, Len(cs) - 1))
  ELSE cs

IsDigits(cs) == \A i \in 1..Len(cs) : cs[i] \in {Digit(d) : d \in 0..9}

\* StringToNumber: blanks, a sign, digits, a point, digits
StringToNumber(cs) ==
  LET body == TrimEnd(TrimStart(cs))
      signed == body # <<>> /\ Head(body) \in {"+", "-"}
      unsigned == IF signed THEN Tail(body) ELSE body
      points == {i \in 1..Len(unsigned) : unsigned[i] = "."}
      point == IF points = {} THEN Len(unsigned) + 1
               ELSE CHOOSE i \in points : \A j \in points : i <= j
      int == SubSeq(unsigned, 1, point - 1)
      frac == SubSeq(unsigned, point + 1, Len(unsigned))
  IN IF body = <<>> THEN Dec(FALSE, 0, <<>>)
     ELSE IF IsDigits(int) /\ IsDigits(frac) /\ int \o frac # <<>>
     THEN Dec(signed /\ Head(body) = "-", DigitsValue(int), Significant(frac))
     ELSE NaN

\* Number(value) for an Operand
ToNumber(value) ==
  CASE value.kind = "number" ->
         Dec(value.n < 0, IF value.n < 0 THEN -value.n ELSE value.n, <<>>)
    [] value.kind = "string" -> StringToNumber(Chars(value.s))
    [] value.kind = "Calc" -> NaN

isNaN(x) == x.nan

\* Number.prototype.toString, the text of a number in a template
NumberText(x) ==
  IF x.nan THEN "NaN"
  ELSE (IF x.neg /\ (x.int # 0 \/ x.frac # <<>>) THEN "-" ELSE "")
         \o Digits(x.int)
         \o (IF x.frac = <<>> THEN "" ELSE "." \o Str(x.frac))

\* Array.prototype.join on an array of strings
JoinStrings(strs, sep) ==
  Str(Join([i \in 1..Len(strs) |-> <<strs[i]>>], sep))

\* `${value}` for an Operand
Template(value) == Str(OperandToString(value))

(* --------------------------- unit coercion ----------------------------- *)

DEFAULT_TIME_UNIT == "ms"

\* coerceToUnit that never re-renders: the value as it was passed
coerceToUnit_Raw(value, unit) == Template(value)

coerceToUnit(value, unit) ==
  LET asNumber == ToNumber(value)
  IN IF isNaN(asNumber) THEN value.s ELSE NumberText(asNumber) \o unit

\* coerceToTime that formats whatever Number() gives
coerceToTime_Formats(value) ==
  NumberText(ToNumber(value)) \o DEFAULT_TIME_UNIT

coerceToTime(value) == coerceToUnit(value, DEFAULT_TIME_UNIT)

\* coerceValue without the test for the literal 0
coerceValue_NoZero(value, unit) ==
  IF isNaN(ToNumber(value)) THEN Template(value)
  ELSE NumberText(ToNumber(value)) \o unit

coerceValue(value, unit) ==
  IF value.kind = "number" /\ value.n = 0 THEN "0"
  ELSE IF isNaN(ToNumber(value)) THEN Template(value)
  ELSE NumberText(ToNumber(value)) \o unit

cubicBezier(p1, p2, p3, p4) ==
  "cubic-bezier(" \o NumberText(p1) \o ", " \o NumberText(p2) \o ", "
    \o NumberText(p3) \o ", " \o NumberText(p4) \o ")"

(* --------------------------- random ------------------------------------ *)

RECURSIVE Pow10(_)
Pow10(k) == IF k = 0 THEN 1 ELSE 10 * Pow10(k - 1)

\* the k digits of a fraction of v parts in 10^k
RECURSIVE FractionDigits(_, _)
FractionDigits(v, k) ==
  IF k = 0 THEN <<>> ELSE FractionDigits(v \div 10, k - 1) \o <<Digit(v % 10)>>

\* x * scale + offset for a number x that is not negative and naturals
\* scale and offset
ScaleAndOffset(x, scale, offset) ==
  LET k == Len(x.frac)
      parts == (x.int * Pow10(k) + DigitsValue(x.frac)) * scale
                 + offset * Pow10(k)
  IN Dec(FALSE, parts \div Pow10(k),
         Significant(FractionDigits(parts % Pow10(k), k)))

\* random that leaves the offset out
random_NoOffset(r, args) ==
  LET scale == IF Len(args) >= 1 THEN args[1] ELSE 1
      val == ScaleAndOffset(r, scale, 0)
  IN NewCalc(<<StrOp(NumberText(val))>>, Undefined, "calc")

\* random(...args) when Math.random() gives r; the constructor keeps the
\* text of val
random(r, args) ==
  LET scale == IF Len(args) >= 1 THEN args[1] ELSE 1
      offset == IF Len(args) >= 2 THEN args[2] ELSE 0
      val == ScaleAndOffset(r, scale, offset)
  IN NewCalc(<<StrOp(NumberText(val))>>, Undefined, "calc")

(* --------------------------- spacing ----------------------------------- *)

\* px(value) for an integer value
px(value) == NumberToString(value) \o "px"

\* configureSpacingDefaults that goes back to 4 when no unit is given
configureSpacingDefaults_Resets(current, newConfig) ==
  IF "unitPx" \in DOMAIN newConfig THEN newConfig.unitPx ELSE 4

\* the module's unitPx after configureSpacingDefaults(newConfig), current
\* being its value before
configureSpacingDefaults(current, newConfig) ==
  IF "unitPx" \in DOMAIN newConfig THEN newConfig.unitPx ELSE current

\* spacing(...args) when the module's unitPx is current
spacing(current, args) ==
  px((IF args = <<>> THEN 1 ELSE args[1].n) * current)

(* --------------------------- class Transform --------------------------- *)

NewTransform(transforms) == [class |-> "Transform", transforms |-> transforms]

\* name(a, b, ...) with every argument rendered by a template
Fragment(name, args) ==
  name \o "(" \o JoinStrings([i \in 1..Len(args) |-> Template(args[i])], ", ")
    \o ")"

\* the unit of each method that takes one value with a unit
TransformUnits ==
  [perspective |-> "px", rotate |-> "deg", rotateX |-> "deg",
   rotateY |-> "deg", rotateZ |-> "deg", skewX |-> "deg", skewY |-> "deg",
   translateX |-> "px", translateY |-> "px", translateZ |-> "px"]

Transform_matrix(this, a) ==
  NewTransform(this.transforms \o <<Fragment("matrix", a)>>)

Transform_matrix3d(this, a) ==
  NewTransform(this.transforms \o <<Fragment("matrix3d", a)>>)

\* perspective, rotate, rotateX .. translateZ
Transform_unit(m, this, value) ==
  NewTransform(this.transforms
    \o <<m \o "(" \o coerceValue(value, TransformUnits[m]) \o ")">>)

Transform_rotate3d(this, x, y, z, angle) ==
  NewTransform(this.transforms
    \o <<"rotate3d(" \o Template(x) \o ", " \o Template(y) \o ", "
           \o Template(z) \o ", " \o coerceValue(angle, "deg") \o ")">>)

\* scale that puts its fragment before the receiver's
Transform_scale_Prepend(this, x, y) ==
  NewTransform(<<Fragment("scale", <<x, IF y = <<>> THEN x ELSE y[1]>>)>>
    \o this.transforms)

\* y is <<>> when the caller leaves it out
Transform_scale(this, x, y) ==
  NewTransform(this.transforms
    \o <<Fragment("scale", <<x, IF y = <<>> THEN x ELSE y[1]>>)>>)

Transform_scale3d(this, x, y, z) ==
  NewTransform(this.transforms \o <<Fragment("scale3d", <<x, y, z>>)>>)

\* scaleX, scaleY, scaleZ
Transform_scaleAxis(m, this, value) ==
  NewTransform(this.transforms \o <<Fragment(m, <<value>>)>>)

\* y is <<>> when the caller leaves it out
Transform_skew(this, x, y) ==
  NewTransform(this.transforms
    \o <<"skew(" \o coerceValue(x, "deg") \o ", "
           \o coerceValue(IF y = <<>> THEN Num(0) ELSE y[1], "deg") \o ")">>)

\* y is <<>> when the caller leaves it out
Transform_translate(this, x, y) ==
  NewTransform(this.transforms
    \o <<"translate(" \o coerceValue(x, "px") \o ", "
           \o coerceValue(IF y = <<>> THEN Num(0) ELSE y[1], "px") \o ")">>)

Transform_translate3d(this, x, y, z) ==
  NewTransform(this.transforms
    \o <<"translate3d(" \o coerceValue(x, "px") \o ", " \o coerceValue(y, "px")
           \o ", " \o coerceValue(z, "px") \o ")">>)

Transform_toString(this) == JoinStrings(this.transforms, " ")

transform == NewTransform(<<>>)

(* --------------------------- configuration records --------------------- *)

(***************************************************************************)
(* A configuration object is a function from the names of the fields it    *)
(* has to their values.  Configuration objects live in a store, cells, and *)
(* a builder holds the address of its configuration: two builders may      *)
(* hold the same object.  The two module-level default records are the     *)
(* first two cells.                                                        *)
(***************************************************************************)

\* the address of the default record of transitions
defaultConfig == 1

\* the address of the default record of animations
config == 2

\* object.field, undefined when the object has no such field
Get(object, field) ==
  IF field \in DOMAIN object THEN object[field] ELSE Undefined

\* Object.assign(target, source), and { ...target, ...source }
Assign(target, source) ==
  [field \in DOMAIN target \cup DOMAIN source |->
     IF field \in DOMAIN source THEN source[field] ELSE target[field]]

\* the number 0 as the value of a field; any other number is held as its
\* text, which is how it renders and which Boolean() takes as true
NumberZero == "0 (number)"

\* Boolean(value) of a field of a configuration
Truthy(value) == value \notin {Undefined, "", NumberZero}

\* the store after the modules are loaded
InitialCells ==
  << [transitionDuration |-> "300ms",
      transitionTimingFunction |->
        cubicBezier(Dec(FALSE, 0, <<"4">>), Dec(FALSE, 0, <<>>),
                    Dec(FALSE, 0, <<"2">>), Dec(FALSE, 1, <<>>))],
     [animationDuration |-> "300ms",
      animationTimingFunction |-> "cubic-bezier(0.4, 0, 0.2, 1)"] >>

\* the fields of a configuration in the order toString lists them
TransitionFields ==
  <<"transitionDuration", "transitionTimingFunction", "transitionDelay">>

\* the fields with the delay after the iteration count
AnimationFields_DelayLater ==
  <<"animationDuration", "animationTimingFunction",
    "animationIterationCount", "animationDelay", "animationDirection",
    "animationFillMode", "animationPlayState">>

AnimationFields ==
  <<"animationDuration", "animationTimingFunction", "animationDelay",
    "animationIterationCount", "animationDirection", "animationFillMode",
    "animationPlayState">>

\* the fields joined without filter(Boolean)
Cfg_Unfiltered(object, fields) ==
  JoinStrings([i \in 1..Len(fields) |-> Get(object, fields[i])], " ")

\* [ ... ].filter(Boolean).join(' ')
Cfg(object, fields) ==
  JoinStrings(SelectSeq([i \in 1..Len(fields) |-> Get(object, fields[i])],
                        Truthy), " ")

(* --------------------------- class Transition -------------------------- *)

(***************************************************************************)
(* A builder is a record; otherTransitions holds addresses into the list   *)
(* of builders, objs.  An operation that allocates returns the store       *)
(* after it and the builder it returns.                                    *)
(***************************************************************************)

NewTransition(properties, configuration, otherTransitions) ==
  [class |-> "Transition", properties |-> properties,
   configuration |-> configuration, otherTransitions |-> otherTransitions]

\* an override that replaces the default record by its argument
transitionConfigDefaults_Replace(mem, newConfig) ==
  [mem EXCEPT ![defaultConfig] = newConfig]

transitionConfigDefaults(mem, newConfig) ==
  [mem EXCEPT ![defaultConfig] = Assign(@, newConfig)]

\* transition(...) whose builder holds the default record itself
transition_Shared(mem, properties) ==
  [cells |-> mem, obj |-> NewTransition(properties, defaultConfig, <<>>)]

transition(mem, properties) ==
  [cells |-> Append(mem, mem[defaultConfig]),
   obj |-> NewTransition(properties, Len(mem) + 1, <<>>)]

\* the field each configuring method of a transition sets
TransitionMethods ==
  [duration |-> "transitionDuration",
   timingFunction |-> "transitionTimingFunction",
   delay |-> "transitionDelay"]

\* duration and delay pass their argument through coerceToTime
TimeMethods == {"duration", "delay"}

Stored(m, value) ==
  IF m \in TimeMethods THEN coerceToTime(value)
  ELSE IF value.kind = "string" THEN value.s
  ELSE IF value.n = 0 THEN NumberZero
  ELSE NumberToString(value.n)

\* a configuring method that writes the receiver's configuration in place
Transition_set_InPlace(mem, this, m, value) ==
  [cells |-> [mem EXCEPT ![this.configuration] =
                Assign(@, [f \in {TransitionMethods[m]} |-> Stored(m, value)])],
   obj |-> NewTransition(this.properties, this.configuration,
                         this.otherTransitions)]

\* duration, timingFunction, delay
Transition_set(mem, this, m, value) ==
  [cells |-> Append(mem, Assign(mem[this.configuration],
                [f \in {TransitionMethods[m]} |-> Stored(m, value)])),
   obj |-> NewTransition(this.properties, Len(mem) + 1,
                         this.otherTransitions)]

\* and() that puts the builders added before the ones composed already
Transition_and_Prepend(mem, this, transitions) ==
  [cells |-> mem,
   obj |-> NewTransition(this.properties, this.configuration,
                         transitions \o this.otherTransitions)]

Transition_and(mem, this, transitions) ==
  [cells |-> mem,
   obj |-> NewTransition(this.properties, this.configuration,
                         this.otherTransitions \o transitions)]

RECURSIVE Transition_toString(_, _, _)
Transition_toString(mem, objs, this) ==
  LET cfg == Cfg(mem[this.configuration], TransitionFields)
      self == JoinStrings([i \in 1..Len(this.properties) |->
                             this.properties[i] \o " " \o cfg], ", ")
      other == [i \in 1..Len(this.otherTransitions) |->
                  Transition_toString(mem, objs, objs[this.otherTransitions[i]])]
  IN JoinStrings(<<self>> \o other, ", ")

(* --------------------------- class Animation --------------------------- *)

NewAnimation(keyframes, configuration, otherAnimations) ==
  [class |-> "Animation", keyframes |-> keyframes,
   configuration |-> configuration, otherAnimations |-> otherAnimations]

animationConfigDefaults(mem, newConfig) ==
  [mem EXCEPT ![config] = Assign(@, newConfig)]

animation(mem, keyframes) ==
  [cells |-> Append(mem, mem[config]),
   obj |-> NewAnimation(keyframes, Len(mem) + 1, <<>>)]

\* the field each configuring method of an animation sets
AnimationMethods ==
  [duration |-> "animationDuration",
   timingFunction |-> "animationTimingFunction",
   delay |-> "animationDelay",
   iterationCount |-> "animationIterationCount",
   direction |-> "animationDirection",
   fillMode |-> "animationFillMode",
   playState |-> "animationPlayState"]

\* a configuring method that passes no composed builders on
Animation_set_DropsOthers(mem, this, m, value) ==
  [cells |-> Append(mem, Assign(mem[this.configuration],
                [f \in {AnimationMethods[m]} |-> Stored(m, value)])),
   obj |-> NewAnimation(this.keyframes, Len(mem) + 1, <<>>)]

\* duration, timingFunction, delay, iterationCount, direction, fillMode,
\* playState
Animation_set(mem, this, m, value) ==
  [cells |-> Append(mem, Assign(mem[this.configuration],
                [f \in {AnimationMethods[m]} |-> Stored(m, value)])),
   obj |-> NewAnimation(this.keyframes, Len(mem) + 1, this.otherAnimations)]

\* and() that keeps only the builders of the last call
Animation_and_Replace(mem, this, animations) ==
  [cells |-> mem,
   obj |-> NewAnimation(this.keyframes, this.configuration, animations)]

Animation_and(mem, this, animations) ==
  [cells |-> mem,
   obj |-> NewAnimation(this.keyframes, this.configuration,
                        this.otherAnimations \o animations)]

\* toString with the keyframe name before the configuration
RECURSIVE Animation_toString_NameFirst(_, _, _)
Animation_toString_NameFirst(mem, objs, this) ==
  LET cfg == Cfg(mem[this.configuration], AnimationFields)
      self == JoinStrings([i \in 1..Len(this.keyframes) |->
                             this.keyframes[i] \o " " \o cfg], ", ")
      other == [i \in 1..Len(this.otherAnimations) |->
                  Animation_toString_NameFirst(mem, objs,
                                               objs[this.otherAnimations[i]])]
  IN JoinStrings(<<self>> \o other, ", ")

RECURSIVE Animation_toString(_, _, _)
Animation_toString(mem, objs, this) ==
  LET cfg == Cfg(mem[this.configuration], AnimationFields)
      self == JoinStrings([i \in 1..Len(this.keyframes) |->
                             cfg \o " " \o this.keyframes[i]], ", ")
      other == [i \in 1..Len(this.otherAnimations) |->
                  Animation_toString(mem, objs, objs[this.otherAnimations[i]])]
  IN JoinStrings(<<self>> \o other, ", ")

\* no call on the store yet
NoBuilderCall == [method |-> "none", receiver |-> 0, args |-> <<>>, result |-> 0]

(* --------------------------- the client -------------------------------- *)

(***************************************************************************)
(* The client holds one expression, held, and calls a factory when it      *)
(* holds none or a chain method on the one it holds; the object returned   *)
(* is the one it holds next.  last records the call just made.             *)
(***************************************************************************)

Ref(c, v) == [kind |-> "Calc", obj |-> c, val |-> v]

NoOperand == [kind |-> "none"]

NoCall == [method |-> "none", receiver |-> NoOperand, args |-> <<>>,
           result |-> NoOperand]

\* calc(x) with its ghost value
RefCalc(x) == Ref(calc(x), IF x.kind = "number" THEN IntVal(x.n) ELSE NoVal)

\* the operand expression of the test tables, calc(2).add(3)
TermOperand == Ref(add(RefCalc(Num(2)), <<Num(3)>>), IntVal(5))

\* expressions a client may hold at the start
Seeds == {RefCalc(Num(1)), RefCalc(Num(2))}

\* the values a client can pass as an operand
Operands ==
  Literals \cup {TermOperand} \cup (IF held = NoOperand THEN {} ELSE {held})

\* operand lists of a variadic call
ArgLists == UNION {[1..k -> Operands] : k \in 0..MaxArgs}

Return(method, receiver, args, c, v) ==
  /\ held' = Ref(c, v)
  /\ last' = [method |-> method, receiver |-> receiver, args |-> args,
              result |-> Ref(c, v)]
  /\ ncalls' = ncalls + 1
  /\ UNCHANGED <<client, builders, cells, call, steps, draws, unitPx>>

Init ==
  /\ held \in {NoOperand} \cup Seeds
  /\ last = NoCall
  /\ ncalls = 0
  /\ client = "Calc"
  /\ builders = <<>>
  /\ cells = InitialCells
  /\ call = NoBuilderCall
  /\ steps = 0
  /\ draws = <<>>
  /\ unitPx = 4

CanCallFree == held = NoOperand /\ ncalls < MaxCalls

CanCallMethod == held # NoOperand /\ ncalls < MaxCalls

CalcFactory ==
  /\ CanCallFree
  /\ \E x \in Operands :
       Return("calc", NoOperand, <<x>>, RefCalc(x).obj, RefCalc(x).val)

\* the arguments of e and pi: none, or the factor
FactorArgs == {<<>>} \cup {<<Num(factor)>> : factor \in Numbers}

\* factor = 1 when the caller leaves it out
FactorOf(args) == IF args = <<>> THEN 1 ELSE args[1].n

E ==
  /\ CanCallFree
  /\ \E args \in FactorArgs :
       Return("e", NoOperand, args, e(FactorOf(args)), NoVal)

Pi ==
  /\ CanCallFree
  /\ \E args \in FactorArgs :
       Return("pi", NoOperand, args, pi(FactorOf(args)), NoVal)

\* what Math.random() may give: 0.1234, 0.5, 0
RandomValues ==
  {Dec(FALSE, 0, <<"1", "2", "3", "4">>), Dec(FALSE, 0, <<"5">>),
   Dec(FALSE, 0, <<>>)}

\* random(), random(10), random(10, 5)
RandomArgs == {<<>>, <<10>>, <<10, 5>>}

Random ==
  /\ CanCallFree
  /\ \E r \in RandomValues, args \in RandomArgs :
       LET c == random(r, args)
       IN /\ draws' = Append(draws, r)
          /\ held' = Ref(c, NoVal)
          /\ last' = [method |-> "random", receiver |-> NoOperand,
                      args |-> [i \in 1..Len(args) |-> Num(args[i])],
                      result |-> Ref(c, NoVal)]
          /\ ncalls' = ncalls + 1
          /\ UNCHANGED <<client, builders, cells, call, steps, unitPx>>

Inf ==
  /\ CanCallFree
  /\ \E isNegative \in BOOLEAN :
       Return("inf", NoOperand, <<>>, inf(isNegative), NoVal)

Nan ==
  /\ CanCallFree
  /\ Return("nan", NoOperand, <<>>, nan, NoVal)

FreeMin ==
  /\ CanCallFree
  /\ \E operands \in ArgLists :
       Return("min", NoOperand, operands, min(operands), NoVal)

FreeMax ==
  /\ CanCallFree
  /\ \E operands \in ArgLists :
       Return("max", NoOperand, operands, max(operands), NoVal)

FreeClamp ==
  /\ CanCallFree
  /\ \E lo \in Operands, value \in Operands, hi \in Operands :
       Return("clamp", NoOperand, <<lo, value, hi>>, clamp(lo, value, hi),
              NoVal)

FreeAtan2 ==
  /\ CanCallFree
  /\ \E x \in Operands, y \in Operands :
       Return("atan2", NoOperand, <<x, y>>, atan2(x, y), NoVal)

FreePow ==
  /\ CanCallFree
  /\ \E base \in Operands, exponent \in Operands :
       Return("pow", NoOperand, <<base, exponent>>, pow(base, exponent),
              NoVal)

FreeLog ==
  /\ CanCallFree
  /\ \E value \in Operands, base \in {<<>>} \cup {<<b>> : b \in Operands} :
       Return("log", NoOperand, <<value>> \o base, log(value, base), NoVal)

FreeUnary ==
  /\ CanCallFree
  /\ \E fn \in UnaryFunctions, value \in Operands :
       Return(fn, NoOperand, <<value>>, unary(fn, value), NoVal)

Add ==
  /\ CanCallMethod
  /\ \E operands \in ArgLists :
       Return("add", held, operands, add(held, operands),
              Fold("+", held.val, operands))

Subtract ==
  /\ CanCallMethod
  /\ \E operands \in ArgLists :
       Return("subtract", held, operands, subtract(held, operands),
              Fold("-", held.val, operands))

Multiply ==
  /\ CanCallMethod
  /\ \E operands \in ArgLists :
       Return("multiply", held, operands, multiply(held, operands),
              Fold("*", held.val, operands))

Divide ==
  /\ CanCallMethod
  /\ \E operands \in ArgLists :
       Return("divide", held, operands, divide(held, operands), NoVal)

Negate ==
  /\ CanCallMethod
  /\ Return("negate", held, <<>>, negate(held), NoVal)

Min ==
  /\ CanCallMethod
  /\ \E operands \in ArgLists :
       Return("min", held, operands, Calc_min(held, operands), NoVal)

Max ==
  /\ CanCallMethod
  /\ \E operands \in ArgLists :
       Return("max", held, operands, Calc_max(held, operands), NoVal)

Clamp ==
  /\ CanCallMethod
  /\ \E lo \in Operands, hi \in Operands :
       Return("clamp", held, <<lo, hi>>, Calc_clamp(held, lo, hi), NoVal)

Atan2 ==
  /\ CanCallMethod
  /\ \E y \in Operands :
       Return("atan2", held, <<y>>, Calc_atan2(held, y), NoVal)

Pow ==
  /\ CanCallMethod
  /\ \E exponent \in Operands :
       Return("pow", held, <<exponent>>, Calc_pow(held, exponent), NoVal)

Log ==
  /\ CanCallMethod
  /\ \E base \in {<<>>} \cup {<<b>> : b \in Operands} :
       Return("log", held, base, Calc_log(held, base), NoVal)

Unary ==
  /\ CanCallMethod
  /\ \E fn \in UnaryFunctions :
       Return(fn, held, <<>>, Calc_unary(fn, held), NoVal)

Next ==
  \/ CalcFactory
  \/ E
  \/ Pi
  \/ Inf
  \/ Nan
  \/ Random
  \/ FreeMin
  \/ FreeMax
  \/ FreeClamp
  \/ FreeAtan2
  \/ FreePow
  \/ FreeLog
  \/ FreeUnary
  \/ Add
  \/ Subtract
  \/ Multiply
  \/ Divide
  \/ Negate
  \/ Min
  \/ Max
  \/ Clamp
  \/ Atan2
  \/ Pow
  \/ Log
  \/ Unary

Spec == Init /\ [][Next]_vars

(* --------------------------- properties -------------------------------- *)

Result == last.result.obj

Called == last.method # "none"

MethodCalled == Called /\ last.receiver # NoOperand

ArithMethods == {"add", "subtract", "multiply", "divide"}

OperatorOf(m) ==
  CASE m = "add" -> "+" [] m = "subtract" -> "-"
    [] m = "multiply" -> "*" [] m = "divide" -> "/"

\* the operands of the last call in the order its node holds them
Passed ==
  IF last.method = "negate" THEN <<Num(-1), last.receiver>>
  ELSE IF last.receiver = NoOperand THEN last.args
  ELSE <<last.receiver>> \o last.args

\* calls whose node holds one text per operand of the call
HoldsOperands == Called /\ last.method \notin {"e", "pi", "inf", "nan"}

LiteralText(x) == IF x.kind = "number" THEN NumberToString(x.n) ELSE x.s

Parenthesized(c) == <<"(">> \o build(c) \o <<")">>

\* the text inside the rendered wrapper
Inner(c) == SubSeq(toString(c), 3, Len(toString(c)) - 1)

ParseInt(tok) == CHOOSE k \in -9..9 : NumberToString(k) = tok

\* parentheses open before position i
Depth(toks, i) ==
  Cardinality({j \in 1..(i - 1) : toks[j] = "("})
    - Cardinality({j \in 1..(i - 1) : toks[j] = ")"})

\* standard arithmetic on a text of integers, + - * and parentheses
RECURSIVE Eval(_)
Eval(toks) ==
  LET Top(ops) ==
        {i \in 1..Len(toks) : toks[i] \in ops /\ Depth(toks, i) = 0}
      Last(S) == CHOOSE i \in S : \A j \in S : j <= i
      Left(i) == Eval(SubSeq(toks, 1, i - 1))
      Right(i) == Eval(SubSeq(toks, i + 1, Len(toks)))
      adds == Top({" + ", " - "})
      muls == Top({" * "})
  IN IF adds # {}
     THEN IF toks[Last(adds)] = " + "
          THEN Left(Last(adds)) + Right(Last(adds))
          ELSE Left(Last(adds)) - Right(Last(adds))
     ELSE IF muls # {}
     THEN Left(Last(muls)) * Right(Last(muls))
     ELSE IF Head(toks) = "("
     THEN Eval(SubSeq(toks, 2, Len(toks) - 1))
     ELSE ParseInt(toks[1])

\* C1: the text inside calc( ) of an expression built from integer
\* literals with add, subtract and multiply evaluates, under standard
\* arithmetic, to the value of the expression as it was constructed.
C1_ValuePreserved ==
  (Called /\ last.result.val.ok) =>
    Eval(Inner(Result)) = last.result.val.n

\* C2: a node with operator + or - passed to multiply, divide or negate,
\* in any position, is stored as "(" + its build() + ")".
C2_Parenthesization ==
  last.method \in {"multiply", "divide", "negate"} =>
    /\ Len(Result.expressions) = Len(Passed)
    /\ \A i \in 1..Len(Passed) :
         (IsCalc(Passed[i]) /\ Passed[i].obj.operator \in {"+", "-"}) =>
           Result.expressions[i] = Parenthesized(Passed[i].obj)

C2_Witness ==
  /\ last.method = "multiply"
  /\ Len(last.args) = 2
  /\ last.receiver.obj.operator = "-"
  /\ Len(last.receiver.obj.expressions) = 2
  /\ last.args[2] = TermOperand
  /\ Result.expressions[3] = <<"(", "2", " + ", "3", ")">>

\* C3: a named-function node used as an operand of any node is stored as
\* its toString(), never as its bare build() and never parenthesized.
C3_FunctionArgument ==
  HoldsOperands =>
    \A i \in 1..Len(Passed) :
      (IsCalc(Passed[i]) /\ Passed[i].obj.fn # "calc") =>
        /\ Result.expressions[i] = toString(Passed[i].obj)
        /\ Result.expressions[i] # build(Passed[i].obj)
        /\ Head(Result.expressions[i]) = Passed[i].obj.fn

C3_Witness ==
  /\ last.method = "multiply"
  /\ last.receiver.obj.fn = "min"
  /\ Str(toString(Result)) = "calc(min(1, 2) * 2)"

Arith(m, this, operands) ==
  CASE m = "add" -> add(this, operands)
    [] m = "subtract" -> subtract(this, operands)
    [] m = "multiply" -> multiply(this, operands)
    [] m = "divide" -> divide(this, operands)

\* calc(lits[1]).m(lits[2]) ... .m(lits[k]), one literal a call
RECURSIVE Chain(_, _)
Chain(m, lits) ==
  IF Len(lits) = 1 THEN calc(lits[1])
  ELSE Arith(m, Ref(Chain(m, SubSeq(lits, 1, Len(lits) - 1)), NoVal),
             <<lits[Len(lits)]>>)

\* the literals joined by " op "
RECURSIVE Flat(_, _)
Flat(lits, op) ==
  IF Len(lits) = 1 THEN LiteralText(lits[1])
  ELSE Flat(SubSeq(lits, 1, Len(lits) - 1), op)
         \o " " \o op \o " " \o LiteralText(lits[Len(lits)])

\* C5: calc(a) followed by k calls of one arithmetic method, each with one
\* literal, renders one calc( ) around the k+1 literals in call order
\* joined by " op ", with no nested calc( and no parentheses.
C5_Flattening ==
  \A m \in ArithMethods :
    (last.method = m /\ Len(last.args) = 1 /\ last.args[1] \in Literals) =>
      \A k \in 1..MaxCalls : \A lits \in [1..k -> Literals] :
        last.receiver.obj = Chain(m, lits) =>
          Str(toString(Result)) =
            "calc(" \o Flat(lits \o last.args, OperatorOf(m)) \o ")"

C5_Witness ==
  /\ last.method = "divide"
  /\ last.receiver.obj = Chain("divide", <<Num(1), Num(2)>>)
  /\ Str(toString(Result)) = "calc(1 / 2 / 1)"

\* the text of operand x inside an additive node, by the coercion rules
AdditiveText(x) ==
  IF IsCalc(x)
  THEN IF x.obj.fn # "calc" THEN toString(x.obj) ELSE build(x.obj)
  ELSE <<LiteralText(x)>>

\* the receiver is calc(a): one text and no operator
IsWrapper(c) ==
  c.operator = Undefined /\ c.fn = "calc" /\ Len(c.expressions) = 1

\* C6 as stated: for operand lists xs of any length, calc(a).add(...xs)
\* builds the text of a, then " + ", then the texts of xs joined by " + ".
C6_AddBuild_AnyLength ==
  (last.method = "add" /\ IsWrapper(last.receiver.obj)) =>
    Str(build(Result)) =
      Str(last.receiver.obj.expressions[1]) \o " + "
        \o Str(Join([i \in 1..Len(last.args) |-> AdditiveText(last.args[i])],
                    " + "))

\* C6 as amended: for non-empty operand lists xs, calc(a).add(...xs) builds
\* the text of a, then " + ", then the texts of xs joined by " + "; with
\* no operands it builds the text of a alone.
C6_AddBuild ==
  (last.method = "add" /\ IsWrapper(last.receiver.obj)) =>
    Str(build(Result)) =
      IF last.args = <<>>
      THEN Str(last.receiver.obj.expressions[1])
      ELSE Str(last.receiver.obj.expressions[1]) \o " + "
             \o Str(Join([i \in 1..Len(last.args) |->
                            AdditiveText(last.args[i])], " + "))

C6_Witness ==
  /\ last.method = "add"
  /\ IsWrapper(last.receiver.obj)
  /\ Len(last.args) = 2
  /\ last.args[1] = TermOperand
  /\ Str(build(Result)) = "1 + 2 + 3 + var(--some-css-var)"

C8_ReceiverFirst ==
  MethodCalled =>
    Result.expressions =
      NewCalc(<<last.receiver>> \o last.args, Result.operator,
              Result.fn).expressions

\* C9: for a receiver calc(x) of one literal, each named-function method
\* renders "calc(" + fn + "(" + x and the arguments joined by ", " + "))".
C9_DocContract ==
  (/\ MethodCalled
   /\ last.method \in NonCalcFunctions
   /\ \E x \in Literals : last.receiver.obj = calc(x)
   /\ \A i \in 1..Len(last.args) : last.args[i] \in Literals) =>
     Str(toString(Result)) =
       "calc(" \o last.method \o "("
         \o Str(Join(last.receiver.obj.expressions
                       \o [i \in 1..Len(last.args) |->
                             <<LiteralText(last.args[i])>>], ", "))
         \o "))"

\* C10: no node has an operator together with a function name other than
\* calc: an arithmetic method gives its operator and the name calc, a
\* named function gives its name and no operator.
C10_OperatorOrFunction ==
  /\ held # NoOperand =>
       ~(held.obj.operator # Undefined /\ held.obj.fn # "calc")
  /\ last.method \in ArithMethods =>
       Result.operator = OperatorOf(last.method) /\ Result.fn = "calc"
  /\ last.method = "negate" =>
       Result.operator = "*" /\ Result.fn = "calc"
  /\ last.method \in NonCalcFunctions =>
       Result.operator = Undefined /\ Result.fn = last.method

C10_Witness ==
  /\ last.method = "min"
  /\ last.receiver # NoOperand
  /\ last.receiver.obj.operator = "*"
  /\ Len(last.args) = 2

(* --------------------------- clients of the store ---------------------- *)

(***************************************************************************)
(* A client of one builder family keeps every builder it has obtained:     *)
(* builders lists them in the order they were returned, and a builder is   *)
(* named by its position.  cells is the store of configuration objects.    *)
(* A call is made on any builder obtained so far, so a receiver can be     *)
(* looked at again after calls on it and on the builders derived from it.  *)
(* call records the call just made, steps counts the calls.                *)
(***************************************************************************)

Live == 1..Len(builders)

CanStep(family) == client = family /\ steps < MaxSteps

\* a call that returns the builder r.obj and leaves the store r.cells
Returned(method, receiver, args, r) ==
  /\ builders' = Append(builders, r.obj)
  /\ cells' = r.cells
  /\ call' = [method |-> method, receiver |-> receiver, args |-> args,
              result |-> Len(builders) + 1]
  /\ steps' = steps + 1
  /\ UNCHANGED <<client, held, last, ncalls, draws, unitPx>>

\* a call of an override function, which returns nothing
Overridden(method, newConfig, mem) ==
  /\ cells' = mem
  /\ call' = [method |-> method, receiver |-> 0, args |-> <<newConfig>>,
              result |-> 0]
  /\ steps' = steps + 1
  /\ UNCHANGED <<client, builders, held, last, ncalls, draws, unitPx>>

\* a builder that allocates nothing in the store
Plain(obj) == [cells |-> cells, obj |-> obj]

(* inputs *)

PropertyLists == {<<>>, <<"opacity">>, <<"opacity", "transform">>}

KeyframeLists == {<<>>, <<"keyframe1">>, <<"keyframe1", "keyframe2">>}

TimeValues ==
  {Num(5), StrOp("-5"), StrOp("0.50"), StrOp(" 300 "), StrOp("1s"),
   StrOp("")}

TimingFunctions == {StrOp("ease-in"), StrOp("")}

\* the values a client passes to each configuring method
ValuesOf(m) ==
  CASE m \in TimeMethods -> TimeValues
    [] m = "timingFunction" -> TimingFunctions
    [] m = "iterationCount" -> {StrOp("infinite"), Num(0), Num(2)}
    [] m = "direction" -> {StrOp("alternate")}
    [] m = "fillMode" -> {StrOp("forwards")}
    [] m = "playState" -> {StrOp("paused")}

\* a record with no field is the empty function
TransitionOverrides ==
  {<<>>,
   [transitionDuration |-> "1s"],
   [transitionDuration |-> "2s", transitionTimingFunction |-> "ease-in"],
   [transitionDelay |-> "5ms"]}

AnimationOverrides ==
  {<<>>,
   [animationDuration |-> "1s"],
   [animationDuration |-> "2s", animationTimingFunction |-> "ease-in"],
   [animationIterationCount |-> "infinite"]}

\* the builders a client can pass to and()
Composed == UNION {[1..k -> Live] : k \in 0..MaxArgs}

TransformValues ==
  {Num(0), Num(10), StrOp("0"), StrOp("5.0"), StrOp("var(--x)"), StrOp("")}

TransformNumbers == {Num(1), Num(2)}

\* what a client may hold at the start: nothing, or the builder of one
\* factory call
Starts(family) ==
  LET Holding(r) == [builders |-> <<r.obj>>, cells |-> r.cells]
  IN {[builders |-> <<>>, cells |-> InitialCells]} \cup
     CASE family = "Transition" ->
            {Holding(transition(InitialCells, <<"transform">>))}
       [] family = "Animation" ->
            {Holding(animation(InitialCells, <<"keyframe2">>))}
       [] OTHER -> {}

BuilderInit ==
  /\ client \in {"Calc", "Transform", "Transition", "Animation"}
  /\ \E start \in Starts(client) :
       /\ builders = start.builders
       /\ cells = start.cells
  /\ call = NoBuilderCall
  /\ steps = 0
  /\ draws = <<>>
  /\ unitPx = 4
  /\ held = NoOperand
  /\ last = NoCall
  /\ ncalls = 0

(* the transition client *)

TransitionFactory ==
  /\ CanStep("Transition")
  /\ \E properties \in PropertyLists :
       Returned("transition", 0, properties, transition(cells, properties))

TransitionConfigDefaults ==
  /\ CanStep("Transition")
  /\ \E newConfig \in TransitionOverrides :
       Overridden("transitionConfigDefaults", newConfig,
                  transitionConfigDefaults(cells, newConfig))

TransitionSet ==
  /\ CanStep("Transition")
  /\ \E i \in Live, m \in DOMAIN TransitionMethods :
       \E value \in ValuesOf(m) :
         Returned(m, i, <<value>>, Transition_set(cells, builders[i], m, value))

TransitionAnd ==
  /\ CanStep("Transition")
  /\ \E i \in Live, transitions \in Composed :
       Returned("and", i, transitions,
                Transition_and(cells, builders[i], transitions))

(* the animation client *)

AnimationFactory ==
  /\ CanStep("Animation")
  /\ \E keyframes \in KeyframeLists :
       Returned("animation", 0, keyframes, animation(cells, keyframes))

AnimationConfigDefaults ==
  /\ CanStep("Animation")
  /\ \E newConfig \in AnimationOverrides :
       Overridden("animationConfigDefaults", newConfig,
                  animationConfigDefaults(cells, newConfig))

AnimationSet ==
  /\ CanStep("Animation")
  /\ \E i \in Live, m \in DOMAIN AnimationMethods :
       \E value \in ValuesOf(m) :
         Returned(m, i, <<value>>, Animation_set(cells, builders[i], m, value))

AnimationAnd ==
  /\ CanStep("Animation")
  /\ \E i \in Live, animations \in Composed :
       Returned("and", i, animations,
                Animation_and(cells, builders[i], animations))

(* the transform client *)

TransformFactory ==
  /\ CanStep("Transform")
  /\ Returned("transform", 0, <<>>, Plain(transform))

Matrix ==
  /\ CanStep("Transform")
  /\ \E i \in Live, n \in TransformNumbers :
       LET a == [k \in 1..6 |-> IF k \in {1, 4} THEN n ELSE Num(0)]
       IN Returned("matrix", i, a, Plain(Transform_matrix(builders[i], a)))

Matrix3d ==
  /\ CanStep("Transform")
  /\ \E i \in Live, n \in TransformNumbers :
       LET a == [k \in 1..16 |-> IF k \in {1, 6, 11, 16} THEN n ELSE Num(0)]
       IN Returned("matrix3d", i, a, Plain(Transform_matrix3d(builders[i], a)))

\* perspective, rotate, rotateX .. translateZ
Unit ==
  /\ CanStep("Transform")
  /\ \E i \in Live, m \in DOMAIN TransformUnits, value \in TransformValues :
       Returned(m, i, <<value>>, Plain(Transform_unit(m, builders[i], value)))

Rotate3d ==
  /\ CanStep("Transform")
  /\ \E i \in Live, n \in TransformNumbers, angle \in TransformValues :
       Returned("rotate3d", i, <<n, Num(0), Num(0), angle>>,
                Plain(Transform_rotate3d(builders[i], n, Num(0), Num(0), angle)))

Scale ==
  /\ CanStep("Transform")
  /\ \E i \in Live, x \in TransformNumbers,
        y \in {<<>>} \cup {<<n>> : n \in TransformNumbers} :
       Returned("scale", i, <<x>> \o y, Plain(Transform_scale(builders[i], x, y)))

Scale3d ==
  /\ CanStep("Transform")
  /\ \E i \in Live, n \in TransformNumbers :
       Returned("scale3d", i, <<n, n, Num(1)>>,
                Plain(Transform_scale3d(builders[i], n, n, Num(1))))

\* scaleX, scaleY, scaleZ
ScaleAxis ==
  /\ CanStep("Transform")
  /\ \E i \in Live, m \in {"scaleX", "scaleY", "scaleZ"}, value \in TransformNumbers :
       Returned(m, i, <<value>>,
                Plain(Transform_scaleAxis(m, builders[i], value)))

Skew ==
  /\ CanStep("Transform")
  /\ \E i \in Live, x \in TransformValues,
        y \in {<<>>, <<Num(10)>>} :
       Returned("skew", i, <<x>> \o y, Plain(Transform_skew(builders[i], x, y)))

Translate ==
  /\ CanStep("Transform")
  /\ \E i \in Live, x \in TransformValues,
        y \in {<<>>, <<StrOp("5.0")>>} :
       Returned("translate", i, <<x>> \o y,
                Plain(Transform_translate(builders[i], x, y)))

Translate3d ==
  /\ CanStep("Transform")
  /\ \E i \in Live, x \in TransformValues :
       Returned("translate3d", i, <<x, Num(0), StrOp("var(--x)")>>,
                Plain(Transform_translate3d(builders[i], x, Num(0),
                                            StrOp("var(--x)"))))

(* the calc client *)

\* the builder at position i as an operand
Operand(i) == Ref(builders[i], NoVal)

CalcNew ==
  /\ CanStep("Calc")
  /\ \E x \in Literals \cup {Operand(i) : i \in Live} :
       Returned("calc", 0, <<x>>, Plain(calc(x)))

CalcArith ==
  /\ CanStep("Calc")
  /\ \E i \in Live, m \in ArithMethods,
        x \in Literals \cup {Operand(j) : j \in Live} :
       Returned(m, i, <<x>>, Plain(Arith(m, Operand(i), <<x>>)))

CalcNegate ==
  /\ CanStep("Calc")
  /\ \E i \in Live :
       Returned("negate", i, <<>>, Plain(negate(Operand(i))))

BuilderNext ==
  \/ TransitionFactory
  \/ TransitionConfigDefaults
  \/ TransitionSet
  \/ TransitionAnd
  \/ AnimationFactory
  \/ AnimationConfigDefaults
  \/ AnimationSet
  \/ AnimationAnd
  \/ TransformFactory
  \/ Matrix
  \/ Matrix3d
  \/ Unit
  \/ Rotate3d
  \/ Scale
  \/ Scale3d
  \/ ScaleAxis
  \/ Skew
  \/ Translate
  \/ Translate3d
  \/ CalcNew
  \/ CalcArith
  \/ CalcNegate

BuilderSpec == BuilderInit /\ [][BuilderNext]_vars

(* --------------------------- the spacing client ------------------------ *)

\* the objects a client passes to configureSpacingDefaults
SpacingOverrides ==
  {<<>>, [unitPx |-> 0], [unitPx |-> 2], [unitPx |-> 8]}

\* spacing(), spacing(0), spacing(3)
SpacingArgs == {<<>>, <<Num(0)>>, <<Num(3)>>}

SpacingInit ==
  /\ client = "Spacing"
  /\ builders = <<>>
  /\ cells = InitialCells
  /\ call = NoBuilderCall
  /\ steps = 0
  /\ draws = <<>>
  /\ unitPx = 4
  /\ held = NoOperand
  /\ last = NoCall
  /\ ncalls = 0

ConfigureSpacingDefaults ==
  /\ CanStep("Spacing")
  /\ \E newConfig \in SpacingOverrides :
       /\ unitPx' = configureSpacingDefaults(unitPx, newConfig)
       /\ call' = [method |-> "configureSpacingDefaults", receiver |-> 0,
                   args |-> <<newConfig>>, result |-> 0]
       /\ steps' = steps + 1
       /\ UNCHANGED <<client, builders, cells, held, last, ncalls, draws>>

\* the client keeps each string spacing returns
Spacing ==
  /\ CanStep("Spacing")
  /\ \E args \in SpacingArgs :
       Returned("spacing", 0, args, Plain(spacing(unitPx, args)))

SpacingNext ==
  \/ ConfigureSpacingDefaults
  \/ Spacing

SpacingSpec == SpacingInit /\ [][SpacingNext]_vars

\* what toString returns for the builder at position i
Rendered(mem, objs, i) ==
  CASE client = "Calc" -> Str(toString(objs[i]))
    [] client = "Transform" -> Transform_toString(objs[i])
    [] client = "Transition" -> Transition_toString(mem, objs, objs[i])
    [] client = "Animation" -> Animation_toString(mem, objs, objs[i])

(* --------------------------- properties of the store clients ----------- *)

\* the last step was a call of a chain method
ChainStep == steps' = steps + 1 /\ call'.receiver # 0

\* the last step was a call of an override function
OverrideStep == steps' = steps + 1 /\ call'.method \in
                  {"transitionConfigDefaults", "animationConfigDefaults"}

\* the last call was one of an override function
Overriding == call.method \in
                {"transitionConfigDefaults", "animationConfigDefaults"}

\* the last step was a call of a factory
FactoryStep == steps' = steps + 1 /\ call'.receiver = 0 /\ call'.result # 0

\* every builder obtained before the step is the same object after it and
\* renders the same string
AllUnchanged ==
  \A i \in Live :
    /\ builders'[i] = builders[i]
    /\ Rendered(cells', builders', i) = Rendered(cells, builders, i)

\* C11: a chain method of any of the four builders, and() included,
\* returns a new instance and leaves the receiver unchanged: the receiver,
\* and with it every builder obtained earlier, renders the same string
\* after the call as before it, whatever calls follow on the result.
C11_ReceiverUnchanged ==
  [][ChainStep => (call'.result \notin Live /\ AllUnchanged)]_vars

\* a configuring call on a builder that was itself derived from the first
C11_Witness ==
  /\ client = "Transition"
  /\ call.method \in DOMAIN TransitionMethods
  /\ call.receiver = 2
  /\ Len(builders) = 3
  /\ builders[1].configuration # builders[2].configuration
  /\ Rendered(cells, builders, 1) # Rendered(cells, builders, 2)
  /\ Rendered(cells, builders, 2) # Rendered(cells, builders, 3)

\* the client works with one of the two configured builder families
Configured == client \in {"Transition", "Animation"}

\* the address of the default record of the client's family
DefaultCell == IF client = "Transition" THEN defaultConfig ELSE config

\* the names of the configuration fields of the client's family
FieldNames ==
  IF client = "Transition" THEN TransitionFields ELSE AnimationFields

\* the field a configuring method of the client's family is about
FieldOf(m) ==
  IF client = "Transition" THEN TransitionMethods[m] ELSE AnimationMethods[m]

\* the configuration the builder at position i holds
ConfigurationOf(mem, objs, i) == mem[objs[i].configuration]

\* the fields of the result of the last call that the call was not about
KeptFields ==
  {FieldNames[k] : k \in 1..Len(FieldNames)} \
    (IF call'.method = "and" THEN {} ELSE {FieldOf(call'.method)})

\* C12: a transition or animation builder takes its configuration from
\* the default record as it stands when the factory is called: a later
\* override call changes no builder obtained before it, a builder derived
\* by a chain method takes every field the method is not about from its
\* receiver (not from the defaults), and a builder made by the factory
\* holds the defaults of the moment of the call.
C12_DefaultsAtConstruction ==
  [][Configured =>
       /\ OverrideStep => AllUnchanged
       /\ ChainStep =>
            \A field \in KeptFields :
              Get(ConfigurationOf(cells', builders', call'.result), field)
                = Get(ConfigurationOf(cells, builders, call'.receiver), field)
       /\ FactoryStep =>
            ConfigurationOf(cells', builders', call'.result)
              = cells[DefaultCell]]_vars

\* the defaults were overridden after a first builder was made: a builder
\* derived from the first still has the old duration, the builder the
\* factory has just returned has the new one
C12_Witness ==
  /\ client = "Transition"
  /\ call.method = "transition"
  /\ cells[defaultConfig].transitionDuration = "1s"
  /\ cells[builders[call.result].configuration].transitionDuration = "1s"
  /\ \E i \in Live :
       /\ cells[builders[i].configuration].transitionDuration = "300ms"
       /\ Get(cells[builders[i].configuration], "transitionDelay") = "-5ms"

\* C13: the default record of a family starts at its initial value; an
\* override call sets each field it supplies to the supplied value and
\* leaves every other field as it was, and no other call changes the
\* record: so each field holds the value of the most recent override call
\* that supplied it, or its initial value.
C13_OverrideMerges ==
  /\ Configured => cells[DefaultCell] = InitialCells[DefaultCell]
  /\ [][Configured =>
          IF OverrideStep
          THEN \A k \in 1..Len(FieldNames) :
                 Get(cells'[DefaultCell], FieldNames[k])
                   = IF FieldNames[k] \in DOMAIN call'.args[1]
                     THEN call'.args[1][FieldNames[k]]
                     ELSE Get(cells[DefaultCell], FieldNames[k])
          ELSE cells'[DefaultCell] = cells[DefaultCell]]_vars

\* an override of the duration alone, after one that set the duration and
\* the timing function
C13_Witness ==
  /\ client = "Transition"
  /\ call.method = "transitionConfigDefaults"
  /\ call.args = <<[transitionDuration |-> "1s"]>>
  /\ cells[defaultConfig] =
       [transitionDuration |-> "1s", transitionTimingFunction |-> "ease-in"]

\* C14: while the default record of transitions is the initial one (as it
\* is before any override call), the builder transition(p1, ..., pn)
\* renders one pair p + " 300ms cubic-bezier(0.4, 0, 0.2, 1)" for each
\* property, in the order given, joined by ", ".
C14_DefaultTransition ==
  (/\ client = "Transition"
   /\ call.method = "transition"
   /\ cells[defaultConfig] = InitialCells[defaultConfig]) =>
    Rendered(cells, builders, call.result) =
      JoinStrings([k \in 1..Len(call.args) |->
                     call.args[k] \o " 300ms cubic-bezier(0.4, 0, 0.2, 1)"],
                  ", ")

\* transition('opacity', 'transform') before any override
C14_Witness ==
  /\ client = "Transition"
  /\ call.method = "transition"
  /\ call.args = <<"opacity", "transform">>
  /\ cells[defaultConfig] = InitialCells[defaultConfig]
  /\ Rendered(cells, builders, call.result) =
       "opacity 300ms cubic-bezier(0.4, 0, 0.2, 1), "
         \o "transform 300ms cubic-bezier(0.4, 0, 0.2, 1)"

\* the tracked names of a transition or animation builder
NamesOf(obj) ==
  IF client = "Transition" THEN obj.properties ELSE obj.keyframes

\* the builders composed into a transition or animation builder
OthersOf(obj) ==
  IF client = "Transition" THEN obj.otherTransitions ELSE obj.otherAnimations

\* the configuration fields in the order the specification lists them
ListedFields ==
  IF client = "Transition"
  THEN <<"transitionDuration", "transitionTimingFunction", "transitionDelay">>
  ELSE <<"animationDuration", "animationTimingFunction", "animationDelay",
         "animationIterationCount", "animationDirection",
         "animationFillMode", "animationPlayState">>

\* a field of a configuration has a value to render
Present(value) == value # Undefined /\ value # ""

\* the values a configuration has, in the listed order
ValuesOfConfiguration(object) ==
  SelectSeq([k \in 1..Len(ListedFields) |-> Get(object, ListedFields[k])],
            Present)

\* a builder with nothing composed into it
Simple(i) == Configured /\ i \in Live /\ OthersOf(builders[i]) = <<>>

\* no field of the configuration of the builder at position i holds the
\* number 0
Textual(i) ==
  \A k \in 1..Len(ListedFields) :
    Get(ConfigurationOf(cells, builders, i), ListedFields[k]) # NumberZero

\* the pairs of the builder at position i, the name of each pair first
NameFirstPairs(i) ==
  [k \in 1..Len(NamesOf(builders[i])) |->
     JoinStrings(<<NamesOf(builders[i])[k]>>
                   \o ValuesOfConfiguration(ConfigurationOf(cells, builders, i)),
                 " ")]

\* the pairs of the builder at position i, the name of each pair last
NameLastPairs(i) ==
  [k \in 1..Len(NamesOf(builders[i])) |->
     JoinStrings(ValuesOfConfiguration(ConfigurationOf(cells, builders, i))
                   \o <<NamesOf(builders[i])[k]>>,
                 " ")]

RenderedAll(positions) ==
  [k \in 1..Len(positions) |-> Rendered(cells, builders, positions[k])]

\* C17: a transition or animation builder renders its own pairs in the
\* order the names were given to the factory, then the rendering of each
\* builder added with and(), in the order added over all and() calls, each
\* with its own configuration, all joined by ", ": the factory's builder
\* renders its pairs, and the result of and() renders what its receiver
\* renders followed by what each added builder renders.
C17_Composition ==
  [][Configured =>
       /\ FactoryStep =>
            /\ NamesOf(builders'[call'.result]) = call'.args
            /\ Rendered(cells', builders', call'.result) =
                 JoinStrings(
                   [k \in 1..Len(call'.args) |->
                      IF client = "Transition"
                      THEN call'.args[k] \o " "
                             \o JoinStrings(ValuesOfConfiguration(
                                              cells[DefaultCell]), " ")
                      ELSE JoinStrings(ValuesOfConfiguration(
                                         cells[DefaultCell]), " ")
                             \o " " \o call'.args[k]],
                   ", ")
       /\ (ChainStep /\ call'.method = "and") =>
            Rendered(cells', builders', call'.result) =
              JoinStrings(<<Rendered(cells, builders, call'.receiver)>>
                            \o RenderedAll(call'.args), ", ")]_vars

\* a second and() on a builder that has builders composed into it
\* already, each of the three with a rendering of its own
C17_Witness ==
  /\ client = "Transition"
  /\ call.method = "and"
  /\ Len(call.args) = 1
  /\ OthersOf(builders[call.receiver]) # <<>>
  /\ Rendered(cells, builders, call.result) =
       "opacity 300ms cubic-bezier(0.4, 0, 0.2, 1), "
         \o "transform 300ms cubic-bezier(0.4, 0, 0.2, 1), "
         \o "opacity 300ms cubic-bezier(0.4, 0, 0.2, 1)"

\* C18: a configuring method of a transition or animation builder returns
\* a builder with the receiver's names, the receiver's composed builders
\* and the receiver's value in every field but the one the method is
\* about; and() returns a builder with the receiver's names and
\* configuration whose composed builders are the receiver's followed by
\* the ones added.  No call changes a builder obtained before it, so a
\* configuring call after and() leaves the rendering of the composed
\* builders as it was.
C18_OneFieldChanges ==
  [][(Configured /\ ChainStep) =>
       LET receiver == builders[call'.receiver]
           result == builders'[call'.result]
       IN /\ NamesOf(result) = NamesOf(receiver)
          /\ \A field \in KeptFields :
               Get(cells'[result.configuration], field)
                 = Get(cells[receiver.configuration], field)
          /\ IF call'.method = "and"
             THEN OthersOf(result) = OthersOf(receiver) \o call'.args
             ELSE OthersOf(result) = OthersOf(receiver)
          /\ AllUnchanged]_vars

\* a configuring call on the result of and()
C18_Witness ==
  /\ client = "Animation"
  /\ call.method \in DOMAIN AnimationMethods
  /\ OthersOf(builders[call.receiver]) # <<>>
  /\ OthersOf(builders[call.result]) = OthersOf(builders[call.receiver])
  /\ Rendered(cells, builders, call.result)
       # Rendered(cells, builders, call.receiver)

\* what the language gives for each value passed as a time: the text of
\* the number and 'ms' for a number and for a string that reads as a
\* number, the string itself otherwise
TimeStored(value) ==
  CASE value = Num(5) -> "5ms"
    [] value = StrOp("-5") -> "-5ms"
    [] value = StrOp("0.50") -> "0.5ms"
    [] value = StrOp(" 300 ") -> "300ms"
    [] value = StrOp("1s") -> "1s"
    [] value = StrOp("") -> "0ms"

\* C19: duration(v) and delay(v) of a transition or animation builder
\* store the text of the number followed by 'ms' when v is a number or a
\* string that parses as a number (a decimal or a negative one included),
\* and v itself when v is a string that does not parse as a number.
C19_TimeCoercion ==
  (Configured /\ call.method \in TimeMethods) =>
    Get(ConfigurationOf(cells, builders, call.result), FieldOf(call.method))
      = TimeStored(call.args[1])

\* delay('0.50') stores '0.5ms'
C19_Witness ==
  /\ Configured
  /\ call.method = "delay"
  /\ call.args = <<StrOp("0.50")>>
  /\ Get(ConfigurationOf(cells, builders, call.result), FieldOf("delay"))
       = "0.5ms"

\* the unit the specification gives for each transform method
ListedUnit(m) ==
  IF m \in {"perspective", "translate", "translate3d", "translateX",
            "translateY", "translateZ"}
  THEN "px" ELSE "deg"

\* what the language gives for each value passed with a unit: bare '0'
\* for the number 0, the text of the number and the unit for a number and
\* for a string that reads as a number, the text of the value otherwise
Coerced(value, unit) ==
  CASE value = Num(0) -> "0"
    [] value = Num(10) -> "10" \o unit
    [] value = StrOp("0") -> "0" \o unit
    [] value = StrOp("5.0") -> "5" \o unit
    [] value = StrOp("var(--x)") -> "var(--x)"
    [] value = StrOp("") -> "0" \o unit

\* the fragment the last call of a transform client added
Added == builders[call.result].transforms[Len(builders[call.result].transforms)]

\* C20: every argument of a transform method that takes a unit
\* (translate*, perspective: px; rotate*, skew*: deg) renders as bare '0'
\* when it is the number 0, as the number followed by the unit when it
\* parses as a number, and unchanged otherwise; translateX(10) adds
\* 'translateX(10px)', translateX(0) 'translateX(0)' and
\* translateX('var(--x)') 'translateX(var(--x))'.
C20_UnitCoercion ==
  (client = "Transform" /\ call.receiver # 0) =>
    LET m == call.method
        arg(k) == IF k <= Len(call.args) THEN call.args[k] ELSE Num(0)
        unit == ListedUnit(m)
    IN /\ m \in DOMAIN TransformUnits =>
            Added = m \o "(" \o Coerced(arg(1), unit) \o ")"
       /\ m \in {"translate", "skew"} =>
            Added = m \o "(" \o Coerced(arg(1), unit) \o ", "
                      \o Coerced(arg(2), unit) \o ")"
       /\ m = "translate3d" =>
            Added = "translate3d(" \o Coerced(arg(1), "px") \o ", "
                      \o Coerced(arg(2), "px") \o ", "
                      \o Coerced(arg(3), "px") \o ")"
       /\ m = "rotate3d" =>
            Added = "rotate3d(" \o Template(arg(1)) \o ", "
                      \o Template(arg(2)) \o ", " \o Template(arg(3))
                      \o ", " \o Coerced(arg(4), "deg") \o ")"

\* translateX(10), then translateX(0) on the result
C20_Witness ==
  /\ client = "Transform"
  /\ call.method = "translateX"
  /\ call.args = <<Num(0)>>
  /\ Rendered(cells, builders, call.result) = "translateX(10px) translateX(0)"

\* C21: the builder transform() returns renders the empty string, and a
\* chain call returns a builder whose fragments are the receiver's, in
\* their order and unaltered, followed by the one fragment of the call; it
\* renders the fragments joined by single spaces.  So after k chain calls
\* the rendering is the k fragments of the calls in call order.
C21_FragmentsInOrder ==
  [][client = "Transform" =>
       /\ FactoryStep =>
            /\ builders'[call'.result].transforms = <<>>
            /\ Rendered(cells', builders', call'.result) = ""
       /\ ChainStep =>
            LET before == builders[call'.receiver].transforms
                after == builders'[call'.result].transforms
            IN /\ Len(after) = Len(before) + 1
               /\ SubSeq(after, 1, Len(before)) = before
               /\ Rendered(cells', builders', call'.result) =
                    IF before = <<>> THEN after[Len(after)]
                    ELSE Rendered(cells, builders, call'.receiver)
                           \o " " \o after[Len(after)]]_vars

\* transform().matrix(1, 0, 0, 1, 0, 0).scale(2)
C21_Witness ==
  /\ client = "Transform"
  /\ call.method = "scale"
  /\ Len(builders[call.result].transforms) = 2
  /\ Rendered(cells, builders, call.result)
       = "matrix(1, 0, 0, 1, 0, 0) scale(2, 2)"

\* C22: no operation of a builder signals an error: every factory and
\* chain call returns a builder, toString() of every builder obtained
\* gives a string, also for non-numeric and empty text and for and() with
\* no builder, and a value that does not parse as a number is passed
\* through as its raw text by the methods that coerce to a unit.
C22_NoError ==
  /\ \A i \in Live : Rendered(cells, builders, i) \in STRING
  /\ (steps > 0 /\ ~Overriding) => call.result \in Live
  /\ (steps > 0 /\ call.receiver # 0 /\ call.args # <<>>
        /\ call.method \in TimeMethods \cup DOMAIN TransformUnits) =>
       LET value == call.args[1]
       IN (value.kind = "string" /\ isNaN(ToNumber(value))) =>
            /\ Configured =>
                 Get(ConfigurationOf(cells, builders, call.result),
                     FieldOf(call.method)) = value.s
            /\ client = "Transform" =>
                 Added = call.method \o "(" \o value.s \o ")"

\* transform().rotate('var(--x)') renders 'rotate(var(--x))'
C22_Witness ==
  /\ client = "Transform"
  /\ call.method = "rotate"
  /\ call.args = <<StrOp("var(--x)")>>
  /\ Rendered(cells, builders, call.result) = "rotate(var(--x))"

\* the last call was add(), subtract(), multiply() or divide() with no
\* operand
NoOperandCall == last.method \in ArithMethods /\ last.args = <<>>

RandomText(r, args) ==
  CASE r.frac = <<"1", "2", "3", "4">> ->
         (CASE args = <<>> -> "0.1234"
            [] args = <<Num(10)>> -> "1.234"
            [] args = <<Num(10), Num(5)>> -> "6.234")
    [] r.frac = <<"5">> ->
         (CASE args = <<>> -> "0.5"
            [] args = <<Num(10)>> -> "5"
            [] args = <<Num(10), Num(5)>> -> "10")
    [] r.frac = <<>> ->
         (CASE args = <<>> -> "0"
            [] args = <<Num(10)>> -> "0"
            [] args = <<Num(10), Num(5)>> -> "5")

\* C24: a call of random(scale, offset) takes exactly one draw r from the
\* pseudo-random source and returns a node without operator, with
\* function name calc and one operand, the text of r * scale + offset, so
\* that it renders 'calc(' that text ')'; scale is 1 and offset 0 when
\* left out.  No other call takes a draw.
C24_Random ==
  [][IF last'.method = "random" /\ ncalls' = ncalls + 1
     THEN /\ Len(draws') = Len(draws) + 1
          /\ SubSeq(draws', 1, Len(draws)) = draws
          /\ LET r == draws'[Len(draws')]
                 text == RandomText(r, last'.args)
                 result == last'.result.obj
             IN /\ result.operator = Undefined
                /\ result.fn = "calc"
                /\ result.expressions = <<<<text>>>>
                /\ Str(toString(result)) = "calc(" \o text \o ")"
     ELSE draws' = draws]_vars

\* random(10, 5) with the draw 0.1234 renders 'calc(6.234)'
C24_Witness ==
  /\ last.method = "random"
  /\ last.args = <<Num(10), Num(5)>>
  /\ Len(draws) = 1
  /\ Str(toString(last.result.obj)) = "calc(6.234)"

\* C25: e(factor) and pi(factor) return a node that renders 'calc(e)' and
\* 'calc(pi)' when factor is 1 or left out, and otherwise a node with
\* operator '*' that renders 'calc(' factor ' * e)' and
\* 'calc(' factor ' * pi)'.
C25_Constants ==
  last.method \in {"e", "pi"} =>
    LET name == last.method
        factor == IF last.args = <<>> THEN 1 ELSE last.args[1].n
        result == last.result.obj
    IN IF factor = 1
       THEN /\ result.operator = Undefined
            /\ Str(toString(result)) = "calc(" \o name \o ")"
       ELSE /\ result.operator = "*"
            /\ Str(toString(result)) =
                 "calc(" \o NumberToString(factor) \o " * " \o name \o ")"

\* pi(2) renders 'calc(2 * pi)'
C25_Witness ==
  /\ last.method = "pi"
  /\ last.args = <<Num(2)>>
  /\ Str(toString(last.result.obj)) = "calc(2 * pi)"

\* calc(n) for the node n = calc(2).add(3), as a client holds it
Wrapper == RefCalc(TermOperand)

\* the node inside the wrapper, any other operand as it is
Unwrap(x) == IF x = Wrapper THEN TermOperand ELSE x

\* C26: wrapping is transparent: a call of add, subtract, multiply, divide
\* or negate renders the same string when calc(n) takes the place of the
\* node n as the receiver or as an operand;
\* calc(calc(2).add(3)).multiply(c) renders as calc(2).add(3).multiply(c).
C26_WrappingTransparent ==
  (last.method \in ArithMethods \cup {"negate"}
     /\ (last.receiver = Wrapper
           \/ \E k \in 1..Len(last.args) : last.args[k] = Wrapper)) =>
    LET this == Unwrap(last.receiver)
        operands == [k \in 1..Len(last.args) |-> Unwrap(last.args[k])]
    IN Str(toString(last.result.obj)) =
         Str(toString(IF last.method = "negate" THEN negate(this)
                      ELSE Arith(last.method, this, operands)))

\* the text of each value a configuration holds, in the listed order; the
\* number 0 reads '0', and an empty text has nothing to show
HeldTexts(object) ==
  LET values == SelectSeq([k \in 1..Len(ListedFields) |->
                             Get(object, ListedFields[k])],
                          LAMBDA v : v \notin {Undefined, ""})
  IN [k \in 1..Len(values) |->
        IF values[k] = NumberZero THEN "0" ELSE values[k]]

\* C27: every value the configuration of a transition or animation
\* builder holds, set by a chain method or taken from the defaults,
\* appears in the pair of every name the builder tracks, in the order of
\* the fields; no value a caller set is dropped when the builder renders.
C27_NothingDropped ==
  \A i \in 1..Len(builders) :
    Simple(i) =>
      LET texts == HeldTexts(ConfigurationOf(cells, builders, i))
          names == NamesOf(builders[i])
      IN Rendered(cells, builders, i) =
           JoinStrings([k \in 1..Len(names) |->
                          JoinStrings(IF client = "Transition"
                                      THEN <<names[k]>> \o texts
                                      ELSE texts \o <<names[k]>>, " ")],
                       ", ")

\* the pairs the builder at position i renders for its own names
OwnPairs(i) ==
  LET names == NamesOf(builders[i])
      cfg == Cfg(ConfigurationOf(cells, builders, i), FieldNames)
  IN [k \in 1..Len(names) |->
        IF client = "Transition" THEN names[k] \o " " \o cfg
        ELSE cfg \o " " \o names[k]]

\* the pairs of the builder at position i and of every builder composed
\* into it, in the order composed
RECURSIVE AllPairs(_), AllPairsOf(_)
AllPairs(i) == OwnPairs(i) \o AllPairsOf(OthersOf(builders[i]))

AllPairsOf(positions) ==
  IF positions = <<>> THEN <<>>
  ELSE AllPairs(Head(positions)) \o AllPairsOf(Tail(positions))

\* C28: the string a transition or animation builder renders has no empty
\* segment between ', ' separators and neither starts nor ends with ', ',
\* whatever the number of names given to the factory, none included, and
\* whatever chain and and() calls were made: it is the pairs of the
\* builder and of the builders composed into it, joined by ', '.
C28_NoEmptySegment ==
  \A i \in 1..Len(builders) :
    Configured =>
      Rendered(cells, builders, i) = JoinStrings(AllPairs(i), ", ")

\* and() and toString() of the client's family
And(this, others) ==
  IF client = "Transition" THEN Transition_and(cells, this, others).obj
  ELSE Animation_and(cells, this, others).obj

RenderedIn(objs, obj) ==
  IF client = "Transition" THEN Transition_toString(cells, objs, obj)
  ELSE Animation_toString(cells, objs, obj)

\* C29: composition with and() is associative and flattening in what it
\* renders: for builders a, b and c of a transition or animation client,
\* a.and(b).and(c), a.and(b, c) and a.and(b.and(c)) render the same
\* string.
C29_AndAssociative ==
  (Configured /\ call.method = "and" /\ Len(call.args) = 2) =>
    LET a == builders[call.receiver]
        b == call.args[1]
        c == call.args[2]
        inner == Len(builders) + 1
        objs == Append(builders, And(builders[b], <<c>>))
    IN /\ builders[call.result] = And(a, <<b, c>>)
       /\ RenderedIn(builders, And(And(a, <<b>>), <<c>>))
            = Rendered(cells, builders, call.result)
       /\ RenderedIn(objs, And(a, <<inner>>))
            = Rendered(cells, builders, call.result)

\* transition('transform').duration(5).and(transition('opacity'),
\* transition('transform'))
C29_Witness ==
  /\ client = "Transition"
  /\ call.method = "and"
  /\ Len(call.args) = 2
  /\ Rendered(cells, builders, call.result)
       = "transform 5ms cubic-bezier(0.4, 0, 0.2, 1), "
           \o "opacity 300ms cubic-bezier(0.4, 0, 0.2, 1), "
           \o "transform 300ms cubic-bezier(0.4, 0, 0.2, 1)"
  /\ RenderedIn(Append(builders, And(builders[call.args[1]], <<call.args[2]>>)),
                And(builders[call.receiver], <<Len(builders) + 1>>))
       = Rendered(cells, builders, call.result)

\* the text of each product of a value and a unit of the spacing client
ProductText(v, u) ==
  CASE v = 0 \/ u = 0 -> "0"
    [] v = 1 -> (CASE u = 2 -> "2" [] u = 4 -> "4" [] u = 8 -> "8")
    [] v = 3 -> (CASE u = 2 -> "6" [] u = 4 -> "12" [] u = 8 -> "24")

\* C30: spacing(v) reads the unit of the module when it is called: the
\* unit is 4 at the start, a call of configureSpacingDefaults that
\* supplies unitPx sets it, a call that does not leaves it as it is, and
\* spacing(v) leaves it and returns the text of v times the unit followed
\* by 'px', with v = 1 for spacing().
C30_Spacing ==
  /\ unitPx = 4
  /\ [][steps' = steps + 1 =>
          IF call'.method = "configureSpacingDefaults"
          THEN unitPx' = IF "unitPx" \in DOMAIN call'.args[1]
                         THEN call'.args[1].unitPx ELSE unitPx
          ELSE /\ unitPx' = unitPx
               /\ builders'[call'.result] =
                    ProductText(IF call'.args = <<>> THEN 1
                                ELSE call'.args[1].n, unitPx) \o "px"]_vars

\* configureSpacingDefaults({unitPx: 8}), configureSpacingDefaults({}),
\* spacing(3)
C30_Witness ==
  /\ client = "Spacing"
  /\ steps = 3
  /\ call.method = "spacing"
  /\ call.args = <<Num(3)>>
  /\ unitPx = 8
  /\ builders[call.result] = "24px"

====
